---------------------------- MODULE Spec2Model ----------------------------
(***************************************************************************)
(* RegexConnector of pybotframework (tutorial notebook, raw cell with the  *)
(* class source): the intent dispatcher.                                   *)
(*                                                                         *)
(*   _process(message)          first rule whose pattern re.match-es the   *)
(*                              message -> (intent, match.groups()),       *)
(*                              else (None, None)                          *)
(*   _postprocess(intent_tuple) response_dict.get(intent); when truthy,    *)
(*                              random.choice of its 'messages' and        *)
(*                              str.format with the captures, else the     *)
(*                              fallback string                            *)
(*                                                                         *)
(* Python strings are strings; Chars gives the characters of the strings   *)
(* the model uses.  A Python Optional value is a sequence of length 0      *)
(* (None) or 1.                                                            *)
(***************************************************************************)
EXTENDS Integers, Sequences, FiniteSets, TLC

(***************************************************************************)
(* Bounds of the model.                                                    *)
(***************************************************************************)
MaxRules == 2
MaxCalls == 2
NumCallers == 2
MaxData == 3
MaxBatchSize == 3
MaxWindow == 2
MaxWords == 3
MaxNWords == 3
MaxSteps == 2001

(***************************************************************************)
(* Python values.                                                          *)
(***************************************************************************)
None == <<>>
Some(v) == <<v>>
IsNone(o) == o = <<>>
Val(o) == o[1]

\* ''.join(chars)
RECURSIVE Join(_)
Join(chars) == IF chars = <<>> THEN "" ELSE chars[1] \o Join(Tail(chars))

(***************************************************************************)
(* The characters of the input texts of the model.                         *)
(***************************************************************************)
Chars(string) ==
    CASE string = "" ->
             <<>>
      [] string = "I need coffee" ->
             <<"I", " ", "n", "e", "e", "d", " ", "c", "o", "f", "f", "e",
               "e">>
      [] string = "Hello, Alain" ->
             <<"H", "e", "l", "l", "o", ",", " ", "A", "l", "a", "i", "n">>
      [] string = "hello there" ->
             <<"h", "e", "l", "l", "o", " ", "t", "h", "e", "r", "e">>
      [] string = "oh hello" ->
             <<"o", "h", " ", "h", "e", "l", "l", "o">>
      [] string = "What am I doing here?" ->
             <<"W", "h", "a", "t", " ", "a", "m", " ", "I", " ", "d", "o",
               "i", "n", "g", " ", "h", "e", "r", "e", "?">>
      [] string = "tea is hot" ->
             <<"t", "e", "a", " ", "i", "s", " ", "h", "o", "t">>
      [] string = "No" ->
             <<"N", "o">>

(***************************************************************************)
(* The response templates of the model as str.format reads them: literal   *)
(* characters and auto-numbered replacement fields {}.                     *)
(***************************************************************************)
TemplateParts(template) ==
    CASE template = "Why do you need {}?" ->
             <<"W", "h", "y", " ", "d", "o", " ", "y", "o", "u", " ", "n",
               "e", "e", "d", " ", "{}", "?">>
      [] template = "Are you sure you need {}?" ->
             <<"A", "r", "e", " ", "y", "o", "u", " ", "s", "u", "r", "e",
               " ", "y", "o", "u", " ", "n", "e", "e", "d", " ", "{}", "?">>
      [] template = "What do you think?" ->
             <<"W", "h", "a", "t", " ", "d", "o", " ", "y", "o", "u", " ",
               "t", "h", "i", "n", "k", "?">>
      [] template = "Why do you ask?" ->
             <<"W", "h", "y", " ", "d", "o", " ", "y", "o", "u", " ", "a",
               "s", "k", "?">>
      [] template = "Hi there" ->
             <<"H", "i", " ", "t", "h", "e", "r", "e">>
      [] template = "Hello {}" ->
             <<"H", "e", "l", "l", "o", " ", "{}">>
      [] template = "Why is {} so {}?" ->
             <<"W", "h", "y", " ", "i", "s", " ", "{}", " ", "s", "o", " ",
               "{}", "?">>
      [] template = "Why {} and {}?" ->
             <<"W", "h", "y", " ", "{}", " ", "a", "n", "d", " ", "{}",
               "?">>
      [] template = "You {}?" ->
             <<"Y", "o", "u", " ", "{}", "?">>
      [] template = "Very interesting." ->
             <<"V", "e", "r", "y", " ", "i", "n", "t", "e", "r", "e", "s",
               "t", "i", "n", "g", ".">>
      [] template = "I see." ->
             <<"I", " ", "s", "e", "e", ".">>
      [] template = "You said {}." ->
             <<"Y", "o", "u", " ", "s", "a", "i", "d", " ", "{}", ".">>

(***************************************************************************)
(* Regular expressions: the syntax tree of a compiled pattern.  Every node *)
(* has the same fields; kids are the sub-patterns, n is a group's number.  *)
(***************************************************************************)
Lit(ch) == [t |-> "lit", c |-> ch, n |-> 0, kids |-> <<>>]
AnyChar == [t |-> "any", c |-> "", n |-> 0, kids |-> <<>>]
Cat(ks) == [t |-> "cat", c |-> "", n |-> 0, kids |-> ks]
Alt(ks) == [t |-> "alt", c |-> "", n |-> 0, kids |-> ks]
Star(e) == [t |-> "star", c |-> "", n |-> 0, kids |-> <<e>>]
Grp(k, e) == [t |-> "grp", c |-> "", n |-> k, kids |-> <<e>>]
LitStr(s) == Cat([i \in 1..Len(s) |-> Lit(s[i])])

\* str.lower on the letters the texts use (re.IGNORECASE compares case-folded)
Lower(ch) ==
    CASE ch = "A" -> "a"
      [] ch = "H" -> "h"
      [] ch = "I" -> "i"
      [] ch = "N" -> "n"
      [] ch = "W" -> "w"
      [] ch = "Y" -> "y"
      [] OTHER -> ch

\* variant: letters are always compared case-folded
CharEq_ignorecase(a, b, ic) == Lower(a) = Lower(b)

CharEq(a, b, ic) == IF ic THEN Lower(a) = Lower(b) ELSE a = b

\* One way of matching: the position after it and the groups set so far.
MatchState(p, cs) == [pos |-> p, caps |-> cs]

(***************************************************************************)
(* The backtracking matcher of the re module: MatchNode is the sequence of *)
(* all ways node matches s from pos, in the order the engine tries them    *)
(* (alternatives left to right, * greedy).  s is the text's characters,    *)
(* 1-indexed; a group's value is the substring it matched.                 *)
(***************************************************************************)
RECURSIVE MatchNode(_, _, _, _, _)
RECURSIVE MatchCatFrom(_, _, _, _, _, _)
RECURSIVE CatRest(_, _, _, _, _, _)
RECURSIVE MatchAltFrom(_, _, _, _, _, _)
RECURSIVE StarRest(_, _, _, _, _, _)

MatchCatFrom(kids, k, s, pos, caps, ic) ==
    IF k > Len(kids)
    THEN <<MatchState(pos, caps)>>
    ELSE CatRest(kids, k, s, MatchNode(kids[k], s, pos, caps, ic), 1, ic)

CatRest(kids, k, s, rs, i, ic) ==
    IF i > Len(rs)
    THEN <<>>
    ELSE MatchCatFrom(kids, k + 1, s, rs[i].pos, rs[i].caps, ic)
         \o CatRest(kids, k, s, rs, i + 1, ic)

MatchAltFrom(kids, k, s, pos, caps, ic) ==
    IF k > Len(kids)
    THEN <<>>
    ELSE MatchNode(kids[k], s, pos, caps, ic)
         \o MatchAltFrom(kids, k + 1, s, pos, caps, ic)

\* after one more iteration of the body (each rs[i]), the loop again; an
\* iteration that consumed nothing ends the loop
StarRest(node, s, pos, rs, i, ic) ==
    IF i > Len(rs)
    THEN <<>>
    ELSE (IF rs[i].pos > pos
          THEN MatchNode(node, s, rs[i].pos, rs[i].caps, ic)
          ELSE <<>>)
         \o StarRest(node, s, pos, rs, i + 1, ic)

MatchNode(node, s, pos, caps, ic) ==
    CASE node.t = "lit" ->
           IF pos <= Len(s) /\ CharEq(s[pos], node.c, ic)
           THEN <<MatchState(pos + 1, caps)>>
           ELSE <<>>
      [] node.t = "any" ->
           IF pos <= Len(s) /\ s[pos] # "\n"
           THEN <<MatchState(pos + 1, caps)>>
           ELSE <<>>
      [] node.t = "cat" -> MatchCatFrom(node.kids, 1, s, pos, caps, ic)
      [] node.t = "alt" -> MatchAltFrom(node.kids, 1, s, pos, caps, ic)
      [] node.t = "star" ->
           StarRest(node, s, pos,
                    MatchNode(node.kids[1], s, pos, caps, ic), 1, ic)
           \o <<MatchState(pos, caps)>>
      [] node.t = "grp" ->
           LET rs == MatchNode(node.kids[1], s, pos, caps, ic)
           IN  [i \in 1..Len(rs) |->
                  MatchState(rs[i].pos,
                             [rs[i].caps EXCEPT
                                ![node.n] =
                                   Some(Join(SubSeq(s, pos, rs[i].pos - 1)))])]

\* A compiled pattern: its tree, its number of groups, and whether its own
\* syntax asks for case-insensitive matching, (?i).
Pattern(tree, ngroups, ignorecase) ==
    [ast |-> tree, groups |-> ngroups, ic |-> ignorecase]

\* re's compilation of the pattern strings of the model
re_compile(pattern) ==
    CASE pattern = "I need (.*)" ->
             Pattern(Cat(<<LitStr(<<"I", " ", "n", "e", "e", "d", " ">>),
                           Grp(1, Star(AnyChar))>>), 1, FALSE)
      [] pattern = "What (.*)" ->
             Pattern(Cat(<<LitStr(<<"W", "h", "a", "t", " ">>),
                           Grp(1, Star(AnyChar))>>), 1, FALSE)
      [] pattern = "hello" ->
             Pattern(LitStr(<<"h", "e", "l", "l", "o">>), 0, FALSE)
      [] pattern = "(?i)(hi|hello)" ->
             Pattern(Grp(1, Alt(<<LitStr(<<"h", "i">>),
                                  LitStr(<<"h", "e", "l", "l", "o">>)>>)),
                     1, TRUE)
      [] pattern = "(hi|hello|greeetings)" ->
             Pattern(Grp(1, Alt(<<LitStr(<<"h", "i">>),
                                  LitStr(<<"h", "e", "l", "l", "o">>),
                                  LitStr(<<"g", "r", "e", "e", "e", "t", "i",
                                           "n", "g", "s">>)>>)),
                     1, FALSE)
      [] pattern = "(.*) is (.*)" ->
             Pattern(Cat(<<Grp(1, Star(AnyChar)),
                           LitStr(<<" ", "i", "s", " ">>),
                           Grp(2, Star(AnyChar))>>), 2, FALSE)
      [] pattern = "(Yes)|No" ->
             Pattern(Alt(<<Grp(1, LitStr(<<"Y", "e", "s">>)),
                           LitStr(<<"N", "o">>)>>), 1, FALSE)
      [] pattern = "(.*)" ->
             Pattern(Grp(1, Star(AnyChar)), 1, FALSE)

\* the first way the compiled pattern p matches s from a position >= k
RECURSIVE SearchFrom(_, _, _)
SearchFrom(p, s, k) ==
    IF k > Len(s) + 1
    THEN None
    ELSE LET rs == MatchNode(p.ast, s, k, [i \in 1..p.groups |-> None], p.ic)
         IN  IF rs = <<>> THEN SearchFrom(p, s, k + 1) ELSE Some(rs[1])

\* variant: the pattern is searched for anywhere in the string
re_match_searching(pattern, string) ==
    SearchFrom(re_compile(pattern), Chars(string), 1)

\* re.match(pattern, string): the first way the pattern matches at the start
\* of the string (the rest of the string is free), or None.
re_match(pattern, string) ==
    LET p == re_compile(pattern)
        rs == MatchNode(p.ast, Chars(string), 1,
                        [i \in 1..p.groups |-> None], p.ic)
    IN  IF rs = <<>> THEN None ELSE Some(rs[1])

\* re.search(pattern, string, flags): the first way the pattern matches from
\* the leftmost position it matches from, or None; flags is re.IGNORECASE
\* or nothing
re_search(pattern, string, ignorecase) ==
    LET p == re_compile(pattern)
    IN  SearchFrom([p EXCEPT !.ic = p.ic \/ ignorecase], Chars(string), 1)

\* variant: parentheses only group the alternatives, nothing is captured
groups_none(match) == <<>>

\* match.groups(): one entry per group, None for a group that took no part
groups(match) == match.caps

\* the notebook's introduction: result = re.search(pattern, message,
\* flags=re.IGNORECASE), then result.groups()
search_result ==
    re_search("(hi|hello|greeetings)", "Hello, Alain", TRUE)

search_result_groups == groups(Val(search_result))

(***************************************************************************)
(* str.format with positional arguments, on a template whose replacement   *)
(* fields are all the auto-numbered {}: the k-th field takes args[k]; a    *)
(* field beyond the arguments raises IndexError; str of None is "None".    *)
(***************************************************************************)
Return(v) == [kind |-> "return", val |-> v, exc |-> ""]
Raise(e) == [kind |-> "raise", val |-> "", exc |-> e]

PyStr(o) == IF IsNone(o) THEN "None" ELSE Val(o)

RECURSIVE FormatFrom(_, _, _, _, _)
FormatFrom(parts, args, i, k, out) ==
    IF i > Len(parts)
    THEN Return(out)
    ELSE IF parts[i] = "{}"
         THEN IF k > Len(args)
              THEN Raise("IndexError")
              ELSE FormatFrom(parts, args, i + 1, k + 1, out \o PyStr(args[k]))
         ELSE FormatFrom(parts, args, i + 1, k, out \o parts[i])

\* variant: the arguments are taken in reverse order
format_reversed(template, args) ==
    FormatFrom(TemplateParts(template),
               [i \in 1..Len(args) |-> args[Len(args) + 1 - i]], 1, 1, "")

\* variant: arguments left over after the last field are an error
format_strict(template, args) ==
    LET parts == TemplateParts(template)
    IN  IF Cardinality({i \in 1..Len(parts) : parts[i] = "{}"}) # Len(args)
        THEN Raise("IndexError")
        ELSE FormatFrom(parts, args, 1, 1, "")

format(template, args) == FormatFrom(TemplateParts(template), args, 1, 1, "")

(***************************************************************************)
(* The fallback response of _postprocess.                                  *)
(***************************************************************************)
Fallback == "Could not figure out a proper response. Please try again."

(***************************************************************************)
(* The parsed JSON files.  A rule is {'intent', 'pattern'}; a response-set *)
(* entry is null (None) or an object: its keys and its 'messages' list.    *)
(***************************************************************************)
Rule(label, pat) == [intent |-> label, pattern |-> pat]
JsonObject(ks, ms) == Some([keys |-> ks, messages |-> ms])
Messages(ms) == JsonObject({"messages"}, ms)

\* variant: a missing key falls back on the entry 'default'
dict_get_or_default(d, key) ==
    IF IsNone(key) \/ Val(key) \notin DOMAIN d
    THEN IF "default" \in DOMAIN d THEN d["default"] ELSE None
    ELSE d[Val(key)]

\* dict.get(key): None for a missing key (a JSON object has no None key)
dict_get(d, key) ==
    IF IsNone(key) \/ Val(key) \notin DOMAIN d THEN None ELSE d[Val(key)]

\* variant: "is not None" instead of the truth value, {} counts as an entry
Truthy_is_not_none(entry) == ~IsNone(entry)

\* truth value of what dict.get returned: None and {} are falsy
Truthy(entry) == ~IsNone(entry) /\ Val(entry).keys # {}

(***************************************************************************)
(* Input texts.                                                            *)
(***************************************************************************)
Texts ==
    {"", "I need coffee", "Hello, Alain", "hello there", "oh hello",
     "What am I doing here?", "tea is hot", "No"}

(***************************************************************************)
(* Rules (regex.json of the Eliza bot, and the notebook's patterns).       *)
(***************************************************************************)
Rules ==
    {Rule("need", "I need (.*)"), Rule("what", "What (.*)"),
     Rule("hello", "hello"), Rule("hello", "(?i)(hi|hello)"),
     Rule("is", "(.*) is (.*)"), Rule("yesno", "(Yes)|No"),
     Rule("default", "(.*)")}

RECURSIVE SeqsUpTo(_, _)
SeqsUpTo(S, n) ==
    IF n = 0
    THEN {<<>>}
    ELSE LET shorter == SeqsUpTo(S, n - 1)
         IN  shorter \cup {Append(s, e) : s \in shorter, e \in S}

RuleLists == SeqsUpTo(Rules, MaxRules)

\* re.match on every rule pattern and text of the model, computed once
MatchTable ==
    [p \in {rule.pattern : rule \in Rules} |->
        [m \in Texts |-> re_match(p, m)]]

(***************************************************************************)
(* RegexConnector._process: the rules in list order, the first whose        *)
(* pattern matches wins.  ProcessFrom is the for loop from index i on.     *)
(***************************************************************************)
RECURSIVE ProcessFrom(_, _, _)

\* variant: an exhausted list returns (None, ()) instead of (None, None)
ProcessFrom_empty_tuple(il, message, i) ==
    IF i > Len(il)
    THEN <<None, Some(<<>>)>>
    ELSE LET match == MatchTable[il[i].pattern][message]
         IN  IF ~IsNone(match)
             THEN <<Some(il[i].intent), Some(groups(Val(match)))>>
             ELSE ProcessFrom(il, message, i + 1)

ProcessFrom(il, message, i) ==
    IF i > Len(il)
    THEN <<None, None>>
    ELSE LET match == MatchTable[il[i].pattern][message]
         IN  IF ~IsNone(match)
             THEN <<Some(il[i].intent), Some(groups(Val(match)))>>
             ELSE ProcessFrom(il, message, i + 1)

\* variant: the loop does not return at the first match, the last one wins
RECURSIVE LastMatchFrom(_, _, _)
LastMatchFrom(il, message, i) ==
    IF i < 1
    THEN <<None, None>>
    ELSE LET match == MatchTable[il[i].pattern][message]
         IN  IF ~IsNone(match)
             THEN <<Some(il[i].intent), Some(groups(Val(match)))>>
             ELSE LastMatchFrom(il, message, i - 1)

_process_last_match(il, message) == LastMatchFrom(il, message, Len(il))

\* variant: the loop starts at the second rule
_process_skip_first(il, message) == ProcessFrom(il, message, 2)

_process(il, message) == ProcessFrom(il, message, 1)

\* the number of patterns _process tried on message
RECURSIVE TriedFrom(_, _, _)
TriedFrom(il, message, i) ==
    IF i > Len(il)
    THEN 0
    ELSE IF ~IsNone(MatchTable[il[i].pattern][message])
         THEN 1
         ELSE 1 + TriedFrom(il, message, i + 1)

(***************************************************************************)
(* RegexConnector._postprocess.  r is what the random source yields: the   *)
(* index random.choice picks.                                              *)
(***************************************************************************)
\* variant: the last element is never picked
random_choice_short(seq) == 1..(Len(seq) - 1)

\* the indices random.choice(seq) can pick
random_choice(seq) == 1..Len(seq)

\* variant: a stock reply is appended to the list the choice is made from
ChoiceList_with_stock(response_list) ==
    Val(response_list).messages \o <<"I see.">>

\* response_list['messages'], the list random.choice is called on
ChoiceList(response_list) == Val(response_list).messages

\* whether _postprocess reaches random.choice with a non-empty list, that
\* is, whether it takes a value from the random source
Draws(rd, intent_tuple) ==
    LET response_list == dict_get(rd, intent_tuple[1])
    IN  /\ Truthy(response_list)
        /\ "messages" \in Val(response_list).keys
        /\ ChoiceList(response_list) # <<>>

\* variant: the template is drawn before the entry is tested
DrawCount_before_test(rd, intent_tuple) == 1

\* how many values one call of _postprocess takes from the random source
DrawCount(rd, intent_tuple) == IF Draws(rd, intent_tuple) THEN 1 ELSE 0

\* the values r the random source can yield to this call (0: none taken)
DrawSet(rd, intent_tuple) ==
    IF Draws(rd, intent_tuple)
    THEN random_choice(ChoiceList(dict_get(rd, intent_tuple[1])))
    ELSE {0}

\* variant: response_dict[intent] instead of response_dict.get(intent)
_postprocess_subscript(rd, intent_tuple, r) ==
    LET intent == intent_tuple[1]
        entities == intent_tuple[2]
    IN  IF IsNone(intent) \/ Val(intent) \notin DOMAIN rd
        THEN Raise("KeyError")
        ELSE LET response_list == rd[Val(intent)]
             IN  IF Truthy(response_list)
                 THEN IF "messages" \notin Val(response_list).keys
                      THEN Raise("KeyError")
                      ELSE IF Val(response_list).messages = <<>>
                      THEN Raise("IndexError")
                      ELSE LET response == Val(response_list).messages[r]
                           IN  IF ~IsNone(entities) /\ Val(entities) # <<>>
                               THEN format(response, Val(entities))
                               ELSE Return(response)
                 ELSE Return(Fallback)

\* variant: if any(entities), captures that are all empty are not formatted
_postprocess_any_entity(rd, intent_tuple, r) ==
    LET intent == intent_tuple[1]
        entities == intent_tuple[2]
        response_list == dict_get(rd, intent)
    IN  IF Truthy(response_list)
        THEN IF "messages" \notin Val(response_list).keys
             THEN Raise("KeyError")
             ELSE IF ChoiceList(response_list) = <<>>
             THEN Raise("IndexError")
             ELSE LET response == ChoiceList(response_list)[r]
                  IN  IF /\ ~IsNone(entities)
                         /\ \E k \in 1..Len(Val(entities)) :
                               Val(entities)[k] \notin {None, Some("")}
                      THEN format(response, Val(entities))
                      ELSE Return(response)
        ELSE Return(Fallback)

_postprocess(rd, intent_tuple, r) ==
    LET intent == intent_tuple[1]
        entities == intent_tuple[2]
        response_list == dict_get(rd, intent)
    IN  IF Truthy(response_list)
        THEN IF "messages" \notin Val(response_list).keys
             THEN Raise("KeyError")
             ELSE IF ChoiceList(response_list) = <<>>
             THEN Raise("IndexError")
             ELSE LET response == ChoiceList(response_list)[r]
                  IN  IF ~IsNone(entities) /\ Val(entities) # <<>>
                      THEN format(response, Val(entities))
                      ELSE Return(response)
        ELSE Return(Fallback)

\* what the two methods leave in self.intent_list and self.response_dict:
\* neither assigns to them nor calls a mutating method on them
\* variant: the rule that matched is moved to the front of the list
RECURSIVE FirstIndexFrom(_, _, _)
FirstIndexFrom(il, message, i) ==
    IF i > Len(il)
    THEN 0
    ELSE IF ~IsNone(MatchTable[il[i].pattern][message])
         THEN i
         ELSE FirstIndexFrom(il, message, i + 1)

SelfAfterProcess_move_to_front(il, rd, message) ==
    LET k == FirstIndexFrom(il, message, 1)
    IN  [intent_list |->
            IF k = 0
            THEN il
            ELSE <<il[k]>> \o SubSeq(il, 1, k - 1)
                           \o SubSeq(il, k + 1, Len(il)),
         response_dict |-> rd]

SelfAfterProcess(il, rd, message) ==
    [intent_list |-> il, response_dict |-> rd]

\* variant: the chosen template is popped from the entry's list
SelfAfterPostprocess_pop(il, rd, intent_tuple, r) ==
    [intent_list |-> il,
     response_dict |->
        IF r = 0
        THEN rd
        ELSE LET ms == Val(rd[Val(intent_tuple[1])]).messages
             IN  [rd EXCEPT ![Val(intent_tuple[1])] =
                     Messages(SubSeq(ms, 1, r - 1)
                              \o SubSeq(ms, r + 1, Len(ms)))]]

\* variant: a rule that has been answered is dropped from the list
SelfAfterPostprocess_drop_rule(il, rd, intent_tuple, r) ==
    [intent_list |->
        IF IsNone(intent_tuple[1])
        THEN il
        ELSE SelectSeq(il, LAMBDA rule : rule.intent # Val(intent_tuple[1])),
     response_dict |-> rd]

SelfAfterPostprocess(il, rd, intent_tuple, r) ==
    [intent_list |-> il, response_dict |-> rd]

\* every result respond(message) can have on a dispatcher holding il, rd
RespondResults(il, rd, message) ==
    LET intent_tuple == _process(il, message)
    IN  {_postprocess(rd, intent_tuple, r) : r \in DrawSet(rd, intent_tuple)}

(***************************************************************************)
(* Response sets (responses.json).                                         *)
(***************************************************************************)
\* the Eliza bot's shape: every template fits its rule
RD_eliza ==
    [need |-> Messages(<<"Why do you need {}?",
                         "Are you sure you need {}?">>),
     what |-> Messages(<<"What do you think?", "Why do you ask?">>),
     hello |-> Messages(<<"Hi there">>),
     is |-> Messages(<<"Why is {} so {}?">>),
     default |-> Messages(<<"Very interesting.", "I see.">>)]

\* templates with more, or fewer, placeholders than their rules capture
RD_mismatch ==
    [need |-> Messages(<<"Why {} and {}?", "Why do you need {}?">>),
     what |-> Messages(<<"You {}?">>),
     hello |-> Messages(<<"Hello {}">>),
     is |-> Messages(<<"You {}?", "I see.">>),
     yesno |-> Messages(<<"You said {}.">>),
     default |-> Messages(<<"You said {}.">>)]

\* one usable single-template entry; the others null, {}, without
\* 'messages', or with no template
RD_degenerate ==
    [need |-> Messages(<<"Why do you need {}?">>),
     is |-> None,
     what |-> JsonObject({}, <<>>),
     hello |-> Messages(<<>>),
     yesno |-> JsonObject({"message"}, <<>>)]

ResponseDicts == {RD_eliza, RD_mismatch, RD_degenerate}

(***************************************************************************)
(* The dispatcher as a state machine.                                      *)
(*   intent_list, response_dict   the two collections of the instance      *)
(*   intent_list0, response_dict0 their values when __init__ returned      *)
(*   ncalls     how many calls have been made                              *)
(*   last       the last call: its method, its message, what _process      *)
(*              returned, the index random.choice picked (0: none), the    *)
(*              result, and how many values it took from the random source *)
(*   rng        the random source of the process (module random): how many *)
(*              values have been taken from it                             *)
(*   frames     the calls of respond in progress, one caller each: the     *)
(*              local variables of the call and where it stands            *)
(*                                                                         *)
(* The word2vec notebook (generate_batch, build_dataset, train):           *)
(*   data        the word indices generate_batch reads                     *)
(*   data_index  the global position of generate_batch in data             *)
(*   gb          the call of generate_batch in progress or just ended: its *)
(*               arguments and local variables, where it stands, and for   *)
(*               the properties the data_index it started with (d0),     *)
(*               the place in data of every word of the buffer (where) and *)
(*               of every input word (origin), and the window position     *)
(*               behind every context entry (targets)                      *)
(*   prev        the call of generate_batch that returned before this one  *)
(*   bd          a call of build_dataset: arguments, locals, results       *)
(*   tr          a call of train: its loop variables                       *)
(***************************************************************************)
VARIABLES intent_list, response_dict, intent_list0, response_dict0,
          ncalls, last, rng, frames,
          data, data_index, gb, prev, bd, tr

bot_vars == <<intent_list, response_dict, intent_list0, response_dict0,
              ncalls, last, rng, frames>>

w2v_vars == <<data, data_index, gb, prev, bd, tr>>

vars == <<bot_vars, w2v_vars>>

NoResult == [kind |-> "none", val |-> "", exc |-> ""]

Callers == 1..NumCallers

\* the frame of a caller that has not called yet
IdleFrame ==
    [pc |-> "idle", message |-> "", item |-> 0, tried |-> <<>>,
     intent_tuple |-> <<None, None>>, response_list |-> None,
     response |-> "", draws |-> 0, result |-> NoResult]

Call(m, message, intent_tuple, r, result, d) ==
    [method |-> m, message |-> message, intent_tuple |-> intent_tuple,
     choice |-> r, result |-> result, draws |-> d]

(***************************************************************************)
(* The word2vec notebook before any of its functions is called.            *)
(***************************************************************************)
\* an entry of np.ndarray(shape=...) that has not been assigned
Uninit == -1

\* the local variables of generate_batch, before a call
GBIdle ==
    [pc |-> "idle", batch_size |-> 0, num_skips |-> 0, skip_window |-> 0,
     span |-> 0, buffer |-> <<>>, k |-> 0, i |-> 0, j |-> 0, target |-> 0,
     targets_to_avoid |-> <<>>, batch |-> <<>>, context |-> <<>>,
     d0 |-> 0, where |-> <<>>, origin |-> <<>>, targets |-> <<>>]

\* no call of generate_batch has returned yet
PrevIdle == [pc |-> "idle", skip_window |-> 0, centre |-> 0]

\* dict()
EmptyDict == [key \in {} |-> 0]

\* the local variables of build_dataset, before a call
BDIdle ==
    [pc |-> "idle", words |-> <<>>, n_words |-> 0, count |-> <<>>,
     dictionary |-> EmptyDict, data |-> <<>>, unk_count |-> 0,
     reversed_dictionary |-> EmptyDict]

\* the local variables of train, before a call
TRIdle ==
    [pc |-> "idle", num_steps |-> 0, step |-> 0, loss_val |-> 0,
     average_loss |-> 0, added |-> 0,
     report |-> [step |-> -1, sum |-> 0, divisor |-> 1, added |-> 0]]

NotebookIdle ==
    /\ data = <<>>
    /\ data_index = 0
    /\ gb = GBIdle
    /\ prev = PrevIdle
    /\ bd = BDIdle
    /\ tr = TRIdle

\* RegexConnector.__init__ has loaded the two files
Init ==
    /\ intent_list \in RuleLists
    /\ response_dict \in ResponseDicts
    /\ intent_list0 = intent_list
    /\ response_dict0 = response_dict
    /\ ncalls = 0
    /\ last = Call("none", "", <<None, None>>, 0, NoResult, 0)
    /\ rng = 0
    /\ frames = [c \in Callers |-> IdleFrame]
    /\ NotebookIdle

\* classify: a call of _process alone
Classify(message) ==
    /\ ncalls < MaxCalls
    /\ LET self == SelfAfterProcess(intent_list, response_dict, message)
       IN  /\ intent_list' = self.intent_list
           /\ response_dict' = self.response_dict
    /\ last' = Call("_process", message, _process(intent_list, message),
                    0, NoResult, 0)
    /\ ncalls' = ncalls + 1
    /\ UNCHANGED <<intent_list0, response_dict0, rng, frames,
                   w2v_vars>>

\* respond: _process, then _postprocess on what it returned
Respond(message) ==
    /\ ncalls < MaxCalls
    /\ LET intent_tuple == _process(intent_list, message)
           self1 == SelfAfterProcess(intent_list, response_dict, message)
       IN  \E r \in DrawSet(self1.response_dict, intent_tuple) :
              LET d == DrawCount(self1.response_dict, intent_tuple)
                  self2 == SelfAfterPostprocess(self1.intent_list,
                                                self1.response_dict,
                                                intent_tuple, r)
              IN  /\ last' = Call("respond", message, intent_tuple, r,
                                  _postprocess(self1.response_dict,
                                               intent_tuple, r), d)
                  /\ intent_list' = self2.intent_list
                  /\ response_dict' = self2.response_dict
                  /\ rng' = rng + d
    /\ ncalls' = ncalls + 1
    /\ UNCHANGED <<intent_list0, response_dict0, frames,
                   w2v_vars>>

Next ==
    \/ \E message \in Texts : Classify(message)
    \/ \E message \in Texts : Respond(message)

Spec == Init /\ [][Next]_vars

(***************************************************************************)
(* Concurrent callers of respond on one shared instance.  Each caller runs *)
(* respond once, a statement at a time; the statements of different        *)
(* callers interleave.  The local variables of a call (message, item,      *)
(* match, intent, entities, response_list, response) live in the call's    *)
(* own frame; the instance's two collections and the random source are     *)
(* shared.                                                                 *)
(*   "for"     in the loop of _process, about to try rule number item      *)
(*   "get"     _process has returned, about to look the intent up          *)
(*   "choice"  the entry is truthy, about to call random.choice            *)
(*   "format"  a template is chosen, about to test entities and format     *)
(*   "done"    respond has returned or raised                              *)
(***************************************************************************)
\* the rule lists and the texts of the concurrent runs
ConcRuleLists ==
    {<<Rule("need", "I need (.*)"), Rule("what", "What (.*)"),
       Rule("hello", "hello"), Rule("default", "(.*)")>>,
     <<Rule("hello", "(?i)(hi|hello)"), Rule("yesno", "(Yes)|No")>>,
     <<Rule("default", "(.*)"), Rule("need", "I need (.*)")>>,
     <<>>}

ConcTexts == {"I need coffee", "What am I doing here?", "hello there", "No"}

\* variant: what _process found is kept in an attribute of the instance,
\* which every call in progress reads
Store_shared_attribute(fs, c, f) ==
    [d \in DOMAIN fs |->
        IF d = c
        THEN f
        ELSE IF fs[d].pc = "idle"
             THEN fs[d]
             ELSE [fs[d] EXCEPT !.intent_tuple = f.intent_tuple]]

\* a statement of caller c assigns to the local variables of c's call only
Store(fs, c, f) == [fs EXCEPT ![c] = f]

InitConc ==
    /\ intent_list \in ConcRuleLists
    /\ response_dict \in ResponseDicts
    /\ intent_list0 = intent_list
    /\ response_dict0 = response_dict
    /\ ncalls = 0
    /\ last = Call("none", "", <<None, None>>, 0, NoResult, 0)
    /\ rng = 0
    /\ frames = [c \in Callers |-> IdleFrame]
    /\ NotebookIdle

\* caller c calls respond(message)
Enter(c, message) ==
    /\ frames[c].pc = "idle"
    /\ frames' = Store(frames, c,
                       [IdleFrame EXCEPT !.pc = "for", !.message = message,
                                         !.item = 1])
    /\ UNCHANGED <<intent_list, response_dict, intent_list0, response_dict0,
                   ncalls, last, rng,
                   w2v_vars>>

\* variant: the loop records a match and goes on to the next rule instead
\* of returning
Try_no_return(c) ==
    LET f == frames[c]
    IN  /\ f.pc = "for"
        /\ IF f.item > Len(intent_list)
           THEN frames' = Store(frames, c, [f EXCEPT !.pc = "get"])
           ELSE LET item == intent_list[f.item]
                    match == MatchTable[item.pattern][f.message]
                    g == [f EXCEPT !.tried = Append(f.tried, f.item),
                                   !.item = f.item + 1]
                IN  IF ~IsNone(match)
                    THEN frames' =
                           Store(frames, c,
                                 [g EXCEPT !.intent_tuple =
                                              <<Some(item.intent),
                                                Some(groups(Val(match)))>>])
                    ELSE frames' = Store(frames, c, g)
        /\ UNCHANGED <<intent_list, response_dict, intent_list0,
                       response_dict0, ncalls, last, rng,
                       w2v_vars>>

\* one turn of the loop of _process: the next rule is tried, or the list
\* is exhausted
Try(c) ==
    LET f == frames[c]
    IN  /\ f.pc = "for"
        /\ IF f.item > Len(intent_list)
           THEN frames' = Store(frames, c,
                                [f EXCEPT !.pc = "get",
                                          !.intent_tuple = <<None, None>>])
           ELSE LET item == intent_list[f.item]
                    match == MatchTable[item.pattern][f.message]
                    g == [f EXCEPT !.tried = Append(f.tried, f.item)]
                IN  IF ~IsNone(match)
                    THEN frames' =
                           Store(frames, c,
                                 [g EXCEPT !.pc = "get",
                                           !.intent_tuple =
                                              <<Some(item.intent),
                                                Some(groups(Val(match)))>>])
                    ELSE frames' = Store(frames, c,
                                         [g EXCEPT !.item = f.item + 1])
        /\ UNCHANGED <<intent_list, response_dict, intent_list0,
                       response_dict0, ncalls, last, rng,
                       w2v_vars>>

\* response_list = self.response_dict.get(intent), and its truth test
Get(c) ==
    LET f == frames[c]
        response_list == dict_get(response_dict, f.intent_tuple[1])
    IN  /\ f.pc = "get"
        /\ IF Truthy(response_list)
           THEN frames' = Store(frames, c,
                                [f EXCEPT !.pc = "choice",
                                          !.response_list = response_list])
           ELSE frames' = Store(frames, c,
                                [f EXCEPT !.pc = "done",
                                          !.response_list = response_list,
                                          !.result = Return(Fallback)])
        /\ UNCHANGED <<intent_list, response_dict, intent_list0,
                       response_dict0, ncalls, last, rng,
                       w2v_vars>>

\* response = random.choice(response_list['messages'])
Choose(c) ==
    LET f == frames[c]
    IN  /\ f.pc = "choice"
        /\ IF "messages" \notin Val(f.response_list).keys
           THEN /\ frames' = Store(frames, c,
                                   [f EXCEPT !.pc = "done",
                                             !.result = Raise("KeyError")])
                /\ rng' = rng
           ELSE IF ChoiceList(f.response_list) = <<>>
           THEN /\ frames' = Store(frames, c,
                                   [f EXCEPT !.pc = "done",
                                             !.result = Raise("IndexError")])
                /\ rng' = rng
           ELSE \E r \in random_choice(ChoiceList(f.response_list)) :
                   /\ frames' =
                        Store(frames, c,
                              [f EXCEPT !.pc = "format",
                                        !.response =
                                           ChoiceList(f.response_list)[r],
                                        !.draws = 1])
                   /\ rng' = rng + 1
        /\ UNCHANGED <<intent_list, response_dict, intent_list0,
                       response_dict0, ncalls, last,
                       w2v_vars>>

\* if entities: response = response.format(...); return response
Format(c) ==
    LET f == frames[c]
        entities == f.intent_tuple[2]
    IN  /\ f.pc = "format"
        /\ frames' =
             Store(frames, c,
                   [f EXCEPT !.pc = "done",
                             !.result =
                                IF ~IsNone(entities) /\ Val(entities) # <<>>
                                THEN format(f.response, Val(entities))
                                ELSE Return(f.response)])
        /\ UNCHANGED <<intent_list, response_dict, intent_list0,
                       response_dict0, ncalls, last, rng,
                       w2v_vars>>

NextConc ==
    \E c \in Callers :
        \/ \E message \in ConcTexts : Enter(c, message)
        \/ Try(c)
        \/ Get(c)
        \/ Choose(c)
        \/ Format(c)

SpecConc == InitConc /\ [][NextConc]_vars

Range(seq) == {seq[i] : i \in 1..Len(seq)}

(***************************************************************************)
(* generate_batch of the word2vec notebook, a statement at a time.         *)
(*   "assert"     called, about to check the two assertions                *)
(*   "fill"       in the loop that fills the buffer with span words        *)
(*   "group"      at the head of the loop over the input words (for i)     *)
(*   "skip"       at the head of the loop over the context words (for j)   *)
(*   "while"      at the test of while target in targets_to_avoid          *)
(*   "store"      the while loop is left, about to record the pair         *)
(*   "advance"    about to append the next word to the buffer              *)
(*   "backtrack"  about to move data_index back by span                    *)
(*   "done"       returned batch, context; "failed": AssertionError        *)
(* Positions are Python's, from 0; the sequences are indexed from 1.       *)
(***************************************************************************)
\* the dispatcher takes no part in the notebook's runs
BotIdle ==
    /\ intent_list = <<>>
    /\ response_dict = RD_eliza
    /\ intent_list0 = intent_list
    /\ response_dict0 = response_dict
    /\ ncalls = 0
    /\ last = Call("none", "", <<None, None>>, 0, NoResult, 0)
    /\ rng = 0
    /\ frames = [c \in Callers |-> IdleFrame]

\* the lists of word indices 0 1 2 ..., of 1 to MaxData words
DataLists == {[p \in 1..n |-> p - 1] : n \in 1..MaxData}

\* variant: the second assertion is not made
asserts_hold_first_only(batch_size, num_skips, skip_window) ==
    batch_size % num_skips = 0

\* assert batch_size % num_skips == 0; assert num_skips <= 2 * skip_window
asserts_hold(batch_size, num_skips, skip_window) ==
    /\ batch_size % num_skips = 0
    /\ num_skips <= 2 * skip_window

\* variant: the window without its centre word
span_without_centre(skip_window) == 2 * skip_window

\* span = 2 * skip_window + 1
span(skip_window) == 2 * skip_window + 1

\* variant: a deque that is not bounded
deque_append_unbounded(buffer, x, maxlen) == Append(buffer, x)

\* variant: the chosen target is not remembered
avoid_append_forgetful(targets_to_avoid, target) == targets_to_avoid

\* targets_to_avoid.append(target)
avoid_append(targets_to_avoid, target) == Append(targets_to_avoid, target)

\* what a later call can know of the call that returned before it: its
\* skip_window and the place in data of its last input word
Returned(frame) ==
    [pc |-> "done", skip_window |-> frame.skip_window,
     centre |-> frame.origin[frame.batch_size]]

\* collections.deque(maxlen=span).append(x)
deque_append(buffer, x, maxlen) ==
    IF Len(buffer) < maxlen
    THEN Append(buffer, x)
    ELSE Append(Tail(buffer), x)

\* variant: data_index is moved back without wrapping around
backtrack_no_wrap(index, length, back) == index - back

\* (data_index + len(data) - span) % len(data)
backtrack(index, length, back) == (index + length - back) % length

InitBatch ==
    /\ BotIdle
    /\ data \in DataLists
    /\ data_index = 0
    /\ gb = GBIdle
    /\ prev = PrevIdle
    /\ bd = BDIdle
    /\ tr = TRIdle

\* generate_batch(data, batch_size, num_skips, skip_window) is called
GBCall(batch_size, num_skips, skip_window) ==
    /\ gb.pc \in {"idle", "done", "failed"}
    /\ gb' = [GBIdle EXCEPT !.pc = "assert", !.batch_size = batch_size,
                            !.num_skips = num_skips,
                            !.skip_window = skip_window, !.d0 = data_index]
    /\ prev' = IF gb.pc = "done" THEN Returned(gb) ELSE prev
    /\ UNCHANGED <<bot_vars, data, data_index, bd, tr>>

\* the two assertions, then batch, context, span and buffer are created
GBAssert ==
    /\ gb.pc = "assert"
    /\ IF ~asserts_hold(gb.batch_size, gb.num_skips, gb.skip_window)
       THEN gb' = [gb EXCEPT !.pc = "failed"]
       ELSE gb' = [gb EXCEPT !.pc = "fill",
                             !.batch = [e \in 1..gb.batch_size |-> Uninit],
                             !.context = [e \in 1..gb.batch_size |-> Uninit],
                             !.origin = [e \in 1..gb.batch_size |-> Uninit],
                             !.targets = [e \in 1..gb.batch_size |-> Uninit],
                             !.span = span(gb.skip_window),
                             !.buffer = <<>>]
    /\ UNCHANGED <<bot_vars, data, data_index, prev, bd, tr>>

\* for _ in range(span): buffer.append(data[data_index]); data_index += 1
GBFill ==
    /\ gb.pc = "fill"
    /\ IF gb.k < gb.span
       THEN /\ gb' = [gb EXCEPT !.buffer = deque_append(gb.buffer,
                                                        data[data_index + 1],
                                                        gb.span),
                                !.where = deque_append(gb.where, data_index,
                                                       gb.span),
                                !.k = gb.k + 1]
            /\ data_index' = (data_index + 1) % Len(data)
       ELSE /\ gb' = [gb EXCEPT !.pc = "group", !.i = 0]
            /\ data_index' = data_index
    /\ UNCHANGED <<bot_vars, data, prev, bd, tr>>

\* for i in range(batch_size // num_skips): target, targets_to_avoid
GBGroup ==
    /\ gb.pc = "group"
    /\ IF gb.i < gb.batch_size \div gb.num_skips
       THEN gb' = [gb EXCEPT !.pc = "skip", !.j = 0,
                             !.target = gb.skip_window,
                             !.targets_to_avoid = <<gb.skip_window>>]
       ELSE gb' = [gb EXCEPT !.pc = "backtrack"]
    /\ UNCHANGED <<bot_vars, data, data_index, prev, bd, tr>>

\* for j in range(num_skips)
GBSkip ==
    /\ gb.pc = "skip"
    /\ IF gb.j < gb.num_skips
       THEN gb' = [gb EXCEPT !.pc = "while"]
       ELSE gb' = [gb EXCEPT !.pc = "advance"]
    /\ UNCHANGED <<bot_vars, data, data_index, prev, bd, tr>>

\* while target in targets_to_avoid: target = random.randint(0, span - 1),
\* the random source yielding t
GBPick(t) ==
    /\ gb.pc = "while"
    /\ gb.target \in Range(gb.targets_to_avoid)
    /\ gb' = [gb EXCEPT !.target = t]
    /\ UNCHANGED <<bot_vars, data, data_index, prev, bd, tr>>

\* the test of the while loop fails: target is not in targets_to_avoid
GBExitWhile ==
    /\ gb.pc = "while"
    /\ gb.target \notin Range(gb.targets_to_avoid)
    /\ gb' = [gb EXCEPT !.pc = "store"]
    /\ UNCHANGED <<bot_vars, data, data_index, prev, bd, tr>>

\* targets_to_avoid.append(target); batch[i * num_skips + j] =
\* buffer[skip_window]; context[i * num_skips + j, 0] = buffer[target]
GBStore ==
    /\ gb.pc = "store"
    /\ LET e == gb.i * gb.num_skips + gb.j + 1
       IN  gb' = [gb EXCEPT
                    !.pc = "skip",
                    !.targets_to_avoid = avoid_append(gb.targets_to_avoid,
                                                      gb.target),
                    !.batch[e] = gb.buffer[gb.skip_window + 1],
                    !.context[e] = gb.buffer[gb.target + 1],
                    !.origin[e] = gb.where[gb.skip_window + 1],
                    !.targets[e] = gb.target,
                    !.j = gb.j + 1]
    /\ UNCHANGED <<bot_vars, data, data_index, prev, bd, tr>>

\* buffer.append(data[data_index]); data_index = (data_index + 1) % len(data)
GBAdvance ==
    /\ gb.pc = "advance"
    /\ gb' = [gb EXCEPT !.pc = "group",
                        !.buffer = deque_append(gb.buffer,
                                                data[data_index + 1],
                                                gb.span),
                        !.where = deque_append(gb.where, data_index, gb.span),
                        !.i = gb.i + 1]
    /\ data_index' = (data_index + 1) % Len(data)
    /\ UNCHANGED <<bot_vars, data, prev, bd, tr>>

\* data_index = (data_index + len(data) - span) % len(data); return
GBBacktrack ==
    /\ gb.pc = "backtrack"
    /\ data_index' = backtrack(data_index, Len(data), gb.span)
    /\ gb' = [gb EXCEPT !.pc = "done"]
    /\ UNCHANGED <<bot_vars, data, prev, bd, tr>>

NextBatch ==
    \/ \E batch_size \in 1..MaxBatchSize, num_skips \in 1..MaxBatchSize,
          skip_window \in 1..MaxWindow :
          GBCall(batch_size, num_skips, skip_window)
    \/ GBAssert
    \/ GBFill
    \/ GBGroup
    \/ GBSkip
    \/ \E t \in 0..(gb.span - 1) : GBPick(t)
    \/ GBExitWhile
    \/ GBStore
    \/ GBAdvance
    \/ GBBacktrack

SpecBatch == InitBatch /\ [][NextBatch]_vars

\* the statements of generate_batch other than the random draw
GBStep ==
    \/ GBAssert
    \/ GBFill
    \/ GBGroup
    \/ GBSkip
    \/ GBExitWhile
    \/ GBStore
    \/ GBAdvance
    \/ GBBacktrack

\* random.randint yields a window position that is not to be avoided
GBPickFree ==
    \E t \in 0..(gb.span - 1) :
        t \notin Range(gb.targets_to_avoid) /\ GBPick(t)

\* the first call of generate_batch
GBFirstCall(batch_size, num_skips, skip_window) ==
    /\ gb.pc = "idle"
    /\ GBCall(batch_size, num_skips, skip_window)

\* one call of generate_batch, from its first statement to its return
NextBatchOnce ==
    \/ \E batch_size \in 1..MaxBatchSize, num_skips \in 1..MaxBatchSize,
          skip_window \in 1..MaxWindow :
          GBFirstCall(batch_size, num_skips, skip_window)
    \/ GBStep
    \/ \E t \in 0..(gb.span - 1) : GBPick(t)

\* a call once made runs on, and the random source is fair: a position
\* that can be drawn for ever is drawn at some time
SpecBatchFair ==
    /\ InitBatch
    /\ [][NextBatchOnce]_vars
    /\ WF_vars(GBStep)
    /\ WF_vars(GBPickFree)

(***************************************************************************)
(* Vocabulary of the properties.                                           *)
(***************************************************************************)
Matches(rule, message) == ~IsNone(MatchTable[rule.pattern][message])

MatchingRules(il, message) == {i \in 1..Len(il) : Matches(il[i], message)}

FirstMatching(il, message) ==
    CHOOSE i \in MatchingRules(il, message) :
        \A j \in MatchingRules(il, message) : i <= j

\* the response-set entry of a label is an object with a 'messages' list
HasMessages(rd, label) ==
    /\ label \in DOMAIN rd
    /\ ~IsNone(rd[label])
    /\ "messages" \in Val(rd[label]).keys

MessagesOf(rd, label) == Val(rd[label]).messages

Placeholders(template) ==
    LET parts == TemplateParts(template)
    IN  Cardinality({i \in 1..Len(parts) : parts[i] = "{}"})

\* template with its k-th placeholder replaced by the k-th capture
Fill(template, caps) ==
    LET parts == TemplateParts(template)
    IN  Join([i \in 1..Len(parts) |->
                IF parts[i] = "{}"
                THEN PyStr(caps[Cardinality({j \in 1..i : parts[j] = "{}"})])
                ELSE parts[i]])

\* what respond gives for one template: the template when nothing was
\* captured, else the template formatted with the captures
Substituted(template, caps) ==
    IF caps = <<>> THEN Return(template) ELSE format(template, caps)

\* the text starts with these characters
StartsWith(message, prefix) ==
    /\ Len(prefix) <= Len(Chars(message))
    /\ SubSeq(Chars(message), 1, Len(prefix)) = prefix

\* the patterns that are a literal text, followed or not by a group that
\* takes any rest; they match exactly the texts that start with the literal
LiteralPrefix(pattern) ==
    CASE pattern = "hello" -> <<"h", "e", "l", "l", "o">>
      [] pattern = "I need (.*)" -> <<"I", " ", "n", "e", "e", "d", " ">>
      [] pattern = "What (.*)" -> <<"W", "h", "a", "t", " ">>

PrefixPatterns == {"hello", "I need (.*)", "What (.*)"}

\* the patterns that match without consuming a character
NullablePatterns == {"(.*)"}


Responded == last.method = "respond"
Matched == MatchingRules(intent_list, last.message) # {}
FirstRule == intent_list[FirstMatching(intent_list, last.message)]
Captures == Val(last.intent_tuple[2])

(***************************************************************************)
(* C1: when no rule's pattern matches the input, respond returns exactly   *)
(* the fallback string "Could not figure out a proper response. Please try *)
(* again." and does not raise.                                             *)
(***************************************************************************)
C1_NoMatchFallback ==
    (Responded /\ ~Matched) =>
        /\ last.result.kind = "return"
        /\ last.result.val
             = "Could not figure out a proper response. Please try again."

C1_Witness ==
    /\ Responded
    /\ ~Matched
    /\ Len(intent_list) = MaxRules
    /\ last.result = Return(Fallback)

(***************************************************************************)
(* C2: when the first matching rule's intent has no entry in the response  *)
(* mapping, respond returns exactly the fallback string, also when a later *)
(* rule matches too and its intent has an entry.                           *)
(***************************************************************************)
C2_UnknownIntentFallback ==
    (Responded /\ Matched /\ FirstRule.intent \notin DOMAIN response_dict) =>
        last.result = Return(Fallback)

C2_Witness ==
    /\ Responded
    /\ Matched
    /\ FirstRule.intent \notin DOMAIN response_dict
    /\ \E j \in MatchingRules(intent_list, last.message) :
          /\ j > FirstMatching(intent_list, last.message)
          /\ HasMessages(response_dict, intent_list[j].intent)
          /\ MessagesOf(response_dict, intent_list[j].intent) # <<>>
    /\ last.result = Return(Fallback)

(***************************************************************************)
(* C3: when at least one rule matches, _process returns the intent label   *)
(* and the captured groups of the matching rule with the smallest index.   *)
(***************************************************************************)
C3_FirstMatchWins ==
    (last.method # "none" /\ Matched) =>
        last.intent_tuple =
            <<Some(FirstRule.intent),
              Some(groups(Val(MatchTable[FirstRule.pattern][last.message])))>>

C3_Witness ==
    /\ last.method = "_process"
    /\ Cardinality(MatchingRules(intent_list, last.message)) > 1
    /\ intent_list[1] = Rule("default", "(.*)")
    /\ intent_list[2] = Rule("need", "I need (.*)")
    /\ last.message = "I need coffee"
    /\ last.intent_tuple = <<Some("default"), Some(<<Some("I need coffee")>>)>>

(***************************************************************************)
(* C4: in every result of _process, intent and captures are absent         *)
(* together or present together, and they are absent exactly when no rule  *)
(* of the list matches the input.                                          *)
(***************************************************************************)
C4_AbsentTogether ==
    last.method # "none" =>
        /\ IsNone(last.intent_tuple[1]) <=> IsNone(last.intent_tuple[2])
        /\ IsNone(last.intent_tuple[1]) <=> ~Matched

C4_Witness ==
    /\ last.method = "_process"
    /\ Len(intent_list) = MaxRules
    /\ ~Matched
    /\ last.intent_tuple = <<None, None>>

(***************************************************************************)
(* C5: when the first matching rule's intent has an entry with a non-empty *)
(* template list, every result of respond is one of that entry's templates *)
(* with the captures substituted, and each template of the list is a       *)
(* possible result.                                                        *)
(***************************************************************************)
C5_ChoiceOverEntry ==
    (/\ Responded
     /\ Matched
     /\ HasMessages(response_dict, FirstRule.intent)
     /\ MessagesOf(response_dict, FirstRule.intent) # <<>>) =>
        LET ms == MessagesOf(response_dict, FirstRule.intent)
            expected == {Substituted(ms[k], Captures) : k \in 1..Len(ms)}
        IN  /\ last.result \in expected
            /\ RespondResults(intent_list, response_dict, last.message)
                 = expected

C5_Witness ==
    /\ Responded
    /\ Matched
    /\ HasMessages(response_dict, FirstRule.intent)
    /\ Len(MessagesOf(response_dict, FirstRule.intent)) = 2
    /\ last.choice = 2
    /\ last.result =
         Substituted(MessagesOf(response_dict, FirstRule.intent)[2], Captures)
    /\ last.result.kind = "return"
    /\ last.result # Return(Fallback)

(***************************************************************************)
(* C6 (as claimed): a chosen template that requires more positional        *)
(* captures than the matched pattern extracted always makes respond fail;  *)
(* respond never returns a string in that case.                            *)
(***************************************************************************)
C6_MismatchAlwaysFails ==
    (/\ Responded
     /\ last.choice > 0
     /\ Placeholders(MessagesOf(response_dict, FirstRule.intent)[last.choice])
          > Len(Captures)) =>
        last.result.kind = "raise"

(***************************************************************************)
(* C7 (as claimed): when the first matching rule's intent has an entry     *)
(* whose template list is empty, respond returns the fallback string and   *)
(* does not raise.                                                         *)
(***************************************************************************)
C7_EmptyListFallback ==
    (/\ Responded
     /\ Matched
     /\ HasMessages(response_dict, FirstRule.intent)
     /\ MessagesOf(response_dict, FirstRule.intent) = <<>>) =>
        last.result = Return(Fallback)

\* C8: captures are substituted positionally in capture order, the k-th
\* captured group fills the k-th placeholder of the chosen template; with
\* rule pattern "I need (.*)" and the single template "Why do you need {}?",
\* respond("I need coffee") returns "Why do you need coffee?".
C8_PositionalSubstitution ==
    /\ (/\ Responded
        /\ last.choice > 0
        /\ Captures # <<>>
        /\ last.result.kind = "return") =>
           last.result.val =
              Fill(MessagesOf(response_dict, FirstRule.intent)[last.choice],
                   Captures)
    /\ (/\ Responded
        /\ last.message = "I need coffee"
        /\ Matched
        /\ FirstRule = Rule("need", "I need (.*)")
        /\ HasMessages(response_dict, "need")
        /\ MessagesOf(response_dict, "need") = <<"Why do you need {}?">>) =>
           last.result = Return("Why do you need coffee?")

C8_Witness ==
    /\ Responded
    /\ Matched
    /\ FirstRule = Rule("is", "(.*) is (.*)")
    /\ last.message = "tea is hot"
    /\ Captures = <<Some("tea"), Some("hot")>>
    /\ last.choice > 0
    /\ MessagesOf(response_dict, "is")[last.choice] = "Why is {} so {}?"
    /\ last.result = Return("Why is tea so hot?")

(***************************************************************************)
(* C9: respond keeps no session or conversation memory: after any sequence *)
(* of earlier calls, the set of possible results of respond(t) is the one  *)
(* of a freshly constructed dispatcher, for every text t.                  *)
(***************************************************************************)
C9_NoSessionMemory ==
    \A t \in Texts :
        RespondResults(intent_list, response_dict, t)
          = RespondResults(intent_list0, response_dict0, t)

C9_Witness ==
    /\ ncalls = MaxCalls
    /\ Responded
    /\ last.choice > 0
    /\ last.result.kind = "return"
    /\ Len(intent_list) = MaxRules

(***************************************************************************)
(* C10: after construction the rule list and the response mapping are      *)
(* never mutated or reloaded: after any sequence of _process and respond   *)
(* calls, also calls that end in the fallback or in a formatting failure,  *)
(* both collections equal their values at construction.                    *)
(***************************************************************************)
C10_CollectionsReadOnly ==
    /\ intent_list = intent_list0
    /\ response_dict = response_dict0

C10_Witness ==
    /\ ncalls = MaxCalls
    /\ Responded
    /\ last.result = Raise("IndexError")
    /\ last.choice > 0
    /\ intent_list = intent_list0
    /\ response_dict = response_dict0

(***************************************************************************)
(* C11: when several callers run respond concurrently on one shared        *)
(* instance, their statements interleaved in any order, every call works   *)
(* on its own intent, captures and template, and its result is one the     *)
(* same call can have when it runs alone; the values taken from the random *)
(* source are the only thing the calls leave in a shared place.            *)
(***************************************************************************)
C11_CallsIsolated ==
    /\ \A c \in Callers :
          LET f == frames[c]
              alone == _process(intent_list, f.message)
          IN  /\ f.pc \in {"get", "choice", "format", "done"} =>
                    f.intent_tuple = alone
              /\ f.pc = "choice" =>
                    f.response_list = dict_get(response_dict, alone[1])
              /\ f.pc = "format" =>
                    /\ Draws(response_dict, alone)
                    /\ \E r \in DrawSet(response_dict, alone) :
                          f.response
                            = MessagesOf(response_dict, Val(alone[1]))[r]
              /\ f.pc = "done" =>
                    f.result
                      \in RespondResults(intent_list, response_dict, f.message)
    /\ intent_list = intent_list0
    /\ response_dict = response_dict0
    /\ rng = Cardinality({c \in Callers : frames[c].draws = 1})

C11_Witness ==
    \E c, d \in Callers :
        /\ frames[c].pc = "format"
        /\ frames[d].pc = "done"
        /\ frames[c].intent_tuple[1] # frames[d].intent_tuple[1]
        /\ frames[c].response # frames[d].response
        /\ frames[d].draws = 1
        /\ frames[d].result.kind = "return"
        /\ frames[d].result.val # frames[d].response
        /\ rng = 2

(***************************************************************************)
(* C12: _process is a pure function of the rule list and the text: every   *)
(* call of it, whatever calls came before, returns what a call with the    *)
(* same text returns on the freshly constructed instance (so two calls     *)
(* with the same text agree), and it takes nothing from the random source. *)
(***************************************************************************)
C12_ClassifyPure ==
    [][(ncalls' = ncalls + 1 /\ last'.method = "_process") =>
          /\ last'.intent_tuple = _process(intent_list0, last'.message)
          /\ rng' = rng
          /\ last'.draws = 0]_vars

C12_Witness ==
    /\ last.method = "_process"
    /\ ncalls = MaxCalls
    /\ rng > 0
    /\ Len(intent_list) = MaxRules
    /\ Matched
    /\ FirstMatching(intent_list, last.message) = MaxRules
    /\ Captures # <<>>

(***************************************************************************)
(* C13: when the entry of the first matching rule's intent holds exactly   *)
(* one template, respond is deterministic: the call has one possible       *)
(* outcome, so every call with the same text returns the same string.      *)
(***************************************************************************)
C13_SingleTemplateDeterministic ==
    (/\ Responded
     /\ Matched
     /\ HasMessages(response_dict, FirstRule.intent)
     /\ Len(MessagesOf(response_dict, FirstRule.intent)) = 1) =>
        RespondResults(intent_list, response_dict, last.message)
          = {last.result}

C13_Witness ==
    /\ Responded
    /\ Matched
    /\ HasMessages(response_dict, FirstRule.intent)
    /\ MessagesOf(response_dict, FirstRule.intent) = <<"Why do you need {}?">>
    /\ last.draws = 1
    /\ last.result = Return("Why do you need coffee?")

\* C14: a rule matches a text only when its pattern matches from position 0
\* of the text.  For rules whose pattern is a literal (with or without a
\* final group that takes any rest) _process finds a match exactly when the
\* text starts with the literal of one of them: the literal occurring only
\* later in the text ("oh hello" for "hello") gives no match, and text left
\* over after the match ("hello there" for "hello") does not prevent it.
C14_AnchoredAtStart ==
    (/\ last.method # "none"
     /\ \A i \in 1..Len(intent_list) :
           intent_list[i].pattern \in PrefixPatterns) =>
        /\ ~IsNone(last.intent_tuple[1]) <=>
              \E i \in 1..Len(intent_list) :
                 StartsWith(last.message,
                            LiteralPrefix(intent_list[i].pattern))
        /\ (last.message = "oh hello" /\ Responded) =>
              last.result = Return(Fallback)
        /\ (last.message = "hello there"
               /\ Rule("hello", "hello") \in Range(intent_list)) =>
              last.intent_tuple = <<Some("hello"), Some(<<>>)>>

C14_Witness ==
    /\ last.method = "_process"
    /\ last.message = "oh hello"
    /\ intent_list = <<Rule("hello", "hello")>>
    /\ last.intent_tuple = <<None, None>>

\* C15: respond("") returns the fallback string unless some rule's pattern
\* matches the empty string (then the first such rule decides, "(.*)"
\* capturing the empty string); a rule whose pattern starts with a literal
\* character never matches the empty text.
C15_EmptyInput ==
    (last.method # "none" /\ last.message = "") =>
        LET nullable == {i \in 1..Len(intent_list) :
                            intent_list[i].pattern \in NullablePatterns}
        IN  /\ \A i \in 1..Len(intent_list) :
                  intent_list[i].pattern \in PrefixPatterns =>
                     i \notin MatchingRules(intent_list, last.message)
            /\ (Responded /\ nullable = {}) => last.result = Return(Fallback)
            /\ nullable # {} =>
                  \E i \in nullable :
                     /\ \A j \in nullable : i <= j
                     /\ last.intent_tuple
                          = <<Some(intent_list[i].intent), Some(<<Some("")>>)>>

C15_Witness ==
    /\ Responded
    /\ last.message = ""
    /\ Len(intent_list) = MaxRules
    /\ \A i \in 1..Len(intent_list) :
          intent_list[i].pattern \in PrefixPatterns
    /\ "default" \in DOMAIN response_dict
    /\ last.result = Return(Fallback)

\* C16 (as claimed): the pattern "(hi|hello)" matched case-insensitively
\* against "Hello, Alain" matches and returns zero captures.
C16_ZeroCaptures ==
    (/\ last.method # "none"
     /\ last.message = "Hello, Alain"
     /\ intent_list # <<>>
     /\ intent_list[1].pattern = "(?i)(hi|hello)") =>
        /\ ~IsNone(last.intent_tuple[1])
        /\ last.intent_tuple[2] = Some(<<>>)

\* C16 (amended): the pattern "(hi|hello)" matched case-insensitively
\* against "Hello, Alain" matches and returns one capture, the matched text
\* "Hello": the parentheses of the alternation are a capturing group.  So it
\* is for a rule with that pattern in _process, and for the notebook's
\* re.search with re.IGNORECASE.
C16_OneCapture ==
    /\ (/\ last.method # "none"
        /\ last.message = "Hello, Alain"
        /\ intent_list # <<>>
        /\ intent_list[1].pattern = "(?i)(hi|hello)") =>
           last.intent_tuple
             = <<Some(intent_list[1].intent), Some(<<Some("Hello")>>)>>
    /\ ~IsNone(search_result)
    /\ search_result_groups = <<Some("Hello")>>

C16_Witness ==
    /\ last.method = "_process"
    /\ last.message = "Hello, Alain"
    /\ intent_list # <<>>
    /\ intent_list[1].pattern = "(?i)(hi|hello)"
    /\ last.intent_tuple = <<Some("hello"), Some(<<Some("Hello")>>)>>

\* C17: patterns are matched case-sensitively by default.  A rule with the
\* literal pattern "hello" does not match "Hello, Alain", which differs from
\* it only in the case of the first letter; a rule whose pattern asks for
\* case-insensitive matching in its own syntax, "(?i)(hi|hello)", does.
C17_CaseSensitiveByDefault ==
    (last.method # "none" /\ last.message = "Hello, Alain") =>
        /\ \A i \in 1..Len(intent_list) :
              /\ intent_list[i].pattern = "hello" =>
                    i \notin MatchingRules(intent_list, last.message)
              /\ intent_list[i].pattern = "(?i)(hi|hello)" =>
                    i \in MatchingRules(intent_list, last.message)
        /\ (\A i \in 1..Len(intent_list) : intent_list[i].pattern = "hello") =>
              /\ last.intent_tuple = <<None, None>>
              /\ Responded => last.result = Return(Fallback)
        /\ (/\ Len(intent_list) = 2
            /\ intent_list[1].pattern = "hello"
            /\ intent_list[2].pattern = "(?i)(hi|hello)") =>
              last.intent_tuple
                = <<Some(intent_list[2].intent), Some(<<Some("Hello")>>)>>

C17_Witness ==
    /\ Responded
    /\ last.message = "Hello, Alain"
    /\ intent_list = <<Rule("hello", "hello")>>
    /\ "hello" \in DOMAIN response_dict
    /\ last.intent_tuple = <<None, None>>
    /\ last.result = Return(Fallback)

\* C18: _postprocess substitutes the captures into the chosen template
\* exactly when there is at least one capture, also when every captured
\* string is empty ("(.*)" on the empty text); with zero captures (a
\* pattern without groups) the chosen template is returned as it is, its
\* placeholders included, and no substitution is attempted.
C18_SubstitutionIffCaptured ==
    (Responded /\ last.choice > 0) =>
        LET template ==
                MessagesOf(response_dict, FirstRule.intent)[last.choice]
        IN  /\ Len(Captures) >= 1 =>
                  IF Placeholders(template) <= Len(Captures)
                  THEN last.result = Return(Fill(template, Captures))
                  ELSE last.result = Raise("IndexError")
            /\ Len(Captures) = 0 => last.result = Return(template)
            /\ (Captures = <<Some("")>> /\ template = "You said {}.") =>
                  last.result = Return("You said .")

C18_Witness ==
    /\ Responded
    /\ last.message = ""
    /\ Matched
    /\ FirstRule.pattern = "(.*)"
    /\ Captures = <<Some("")>>
    /\ last.choice = 1
    /\ MessagesOf(response_dict, FirstRule.intent) = <<"You said {}.">>
    /\ last.result = Return("You said .")

\* C19: a chosen template with fewer placeholders than there are captures
\* is not an error: respond returns the template with its placeholders
\* filled from the leading captures, the surplus captures dropped; with no
\* placeholder at all the template is returned unchanged, as
\* respond("What am I doing here?") gives "What do you think?" for the rule
\* "What (.*)".
C19_SurplusCapturesDropped ==
    (Responded /\ last.choice > 0) =>
        LET template ==
                MessagesOf(response_dict, FirstRule.intent)[last.choice]
        IN  /\ Placeholders(template) < Len(Captures) =>
                  /\ last.result = Return(Fill(template, Captures))
                  /\ Placeholders(template) = 0 =>
                        last.result = Return(template)
            /\ (/\ last.message = "What am I doing here?"
                /\ FirstRule = Rule("what", "What (.*)")
                /\ template = "What do you think?") =>
                  last.result = Return("What do you think?")

C19_Witness ==
    /\ Responded
    /\ last.choice > 0
    /\ last.message = "tea is hot"
    /\ Captures = <<Some("tea"), Some("hot")>>
    /\ MessagesOf(response_dict, FirstRule.intent)[last.choice] = "You {}?"
    /\ last.result = Return("You tea?")

(***************************************************************************)
(* C20: _process always terminates after trying at most len(intent_list)   *)
(* patterns: it tries the rules in increasing index order, one per turn of *)
(* the loop, tries no rule after the first one that matches, and leaves    *)
(* the loop at that rule or when the list is exhausted.                    *)
(***************************************************************************)
C20_LoopBounded ==
    \A c \in Callers :
        LET f == frames[c]
            n == Len(f.tried)
        IN  f.pc # "idle" =>
              /\ n <= Len(intent_list)
              /\ \A k \in 1..n : f.tried[k] = k
              /\ \A k \in 1..(n - 1) : ~Matches(intent_list[k], f.message)
              /\ f.pc = "for" =>
                    /\ f.item = n + 1
                    /\ n > 0 => ~Matches(intent_list[n], f.message)
              /\ f.pc # "for" =>
                    /\ n = TriedFrom(intent_list, f.message, 1)
                    /\ \/ n > 0 /\ Matches(intent_list[n], f.message)
                       \/ /\ n = Len(intent_list)
                          /\ f.intent_tuple = <<None, None>>

C20_Witness ==
    \E c, d \in Callers :
        /\ Len(intent_list) = 4
        /\ frames[c].pc = "get"
        /\ frames[c].message = "hello there"
        /\ frames[c].tried = <<1, 2, 3>>
        /\ frames[c].intent_tuple = <<Some("hello"), Some(<<>>)>>
        /\ frames[d].pc = "done"
        /\ frames[d].tried = <<1, 2, 3, 4>>

(***************************************************************************)
(* C21: _postprocess treats every falsy lookup like a no-match: when the   *)
(* entry of the matched intent is missing, null or an empty mapping,       *)
(* respond returns the fallback string, takes nothing from the random      *)
(* source and chooses no template to substitute into.                      *)
(***************************************************************************)
C21_FalsyLookupFallback ==
    (/\ Responded
     /\ Matched
     /\ \/ FirstRule.intent \notin DOMAIN response_dict
        \/ response_dict[FirstRule.intent] = None
        \/ Val(response_dict[FirstRule.intent]).keys = {}) =>
        /\ last.result = Return(Fallback)
        /\ last.draws = 0
        /\ last.choice = 0

C21_Witness ==
    /\ Responded
    /\ Matched
    /\ FirstRule.intent \in DOMAIN response_dict
    /\ response_dict[FirstRule.intent] # None
    /\ Val(response_dict[FirstRule.intent]).keys = {}
    /\ Captures # <<>>
    /\ last.result = Return(Fallback)
    /\ last.draws = 0

(***************************************************************************)
(* C22 (as claimed): when a rule matches, _process returns one capture per *)
(* capturing group of the rule's pattern, in group order, and every        *)
(* capture is a string, a substring of the text, also for a group that     *)
(* took no part in the match.                                              *)
(***************************************************************************)
C22_CapturesAreStrings ==
    (last.method # "none" /\ Matched) =>
        /\ Len(Captures) = re_compile(FirstRule.pattern).groups
        /\ \A k \in 1..Len(Captures) :
              /\ ~IsNone(Captures[k])
              /\ \E a, b \in 1..(Len(Chars(last.message)) + 1) :
                    Val(Captures[k])
                      = Join(SubSeq(Chars(last.message), a, b - 1))

(***************************************************************************)
(* C23: a respond call takes exactly one value from the random source when *)
(* the matched intent has a usable entry (a truthy entry with a non-empty  *)
(* list of templates) and none otherwise, in particular none when it       *)
(* returns the fallback; nothing else is changed by the call.              *)
(***************************************************************************)
C23_OneDrawPerResponse ==
    Responded =>
        LET usable ==
                /\ Matched
                /\ HasMessages(response_dict, FirstRule.intent)
                /\ MessagesOf(response_dict, FirstRule.intent) # <<>>
        IN  /\ last.draws = (IF usable THEN 1 ELSE 0)
            /\ last.choice > 0 <=> usable
            /\ last.result = Return(Fallback) => last.draws = 0
            /\ rng \in last.draws..ncalls
            /\ intent_list = intent_list0
            /\ response_dict = response_dict0

C23_Witness ==
    /\ Responded
    /\ ncalls = MaxCalls
    /\ last.result = Return(Fallback)
    /\ last.draws = 0
    /\ rng = MaxCalls - 1

(***************************************************************************)
(* build_dataset of the word2vec notebook.  A dict is a function from its  *)
(* keys; count is a list of pairs <<word, number>>.                        *)
(*   "count"    called, about to build count                               *)
(*   "index"    about to fill dictionary from count                        *)
(*   "encode"   about to translate words into data                         *)
(*   "return"   about to set the number of UNK and to reverse dictionary   *)
(*   "done"     returned data, count, dictionary, reversed_dictionary      *)
(***************************************************************************)
Vocabulary == {"UNK", "a", "b"}

\* the word lists of up to MaxWords words
WordLists ==
    UNION {[1..n -> Vocabulary] : n \in 0..MaxWords}

\* how often word occurs in words
Occurrences(words, word) ==
    Cardinality({p \in 1..Len(words) : words[p] = word})

Min(a, b) == IF a <= b THEN a ELSE b

\* collections.Counter(words).most_common(n): the n most frequent words,
\* most frequent first; words that occur equally often come in any order
most_common(words, n) ==
    LET m == Min(n, Cardinality(Range(words)))
    IN  {q \in [1..m -> Range(words)] :
           /\ \A p1, p2 \in 1..m : p1 < p2 =>
                 /\ q[p1] # q[p2]
                 /\ Occurrences(words, q[p1]) >= Occurrences(words, q[p2])
           /\ \A word \in Range(words) \ Range(q) : \A p \in 1..m :
                 Occurrences(words, q[p]) >= Occurrences(words, word)}

\* dictionary[key] = value
dict_set(dictionary, key, value) ==
    [k \in DOMAIN dictionary \cup {key} |->
        IF k = key THEN value ELSE dictionary[k]]

\* len(dictionary)
dict_len(dictionary) == Cardinality(DOMAIN dictionary)

RECURSIVE index_words(_, _, _)
\* for word, _ in count: dictionary[word] = len(dictionary), from the
\* k-th pair of count on
index_words(count, k, dictionary) ==
    IF k > Len(count)
    THEN dictionary
    ELSE index_words(count, k + 1,
                     dict_set(dictionary, count[k][1], dict_len(dictionary)))

\* index = dictionary[word] if word in dictionary else 0
encode(dictionary, word) ==
    IF word \in DOMAIN dictionary THEN dictionary[word] ELSE 0

\* dict(zip(dictionary.values(), dictionary.keys())): one key of
\* dictionary for each of its values; of the keys with the same value
\* the one that comes last in the order of the dict
reversed_dicts(dictionary) ==
    LET values == {dictionary[k] : k \in DOMAIN dictionary}
    IN  {r \in [values -> DOMAIN dictionary] :
           \A v \in values : dictionary[r[v]] = v}

InitDataset ==
    /\ BotIdle
    /\ NotebookIdle

\* build_dataset(words, n_words) is called
BDCall(words, n_words) ==
    /\ bd.pc \in {"idle", "done"}
    /\ bd' = [BDIdle EXCEPT !.pc = "count", !.words = words,
                            !.n_words = n_words]
    /\ UNCHANGED <<bot_vars, data, data_index, gb, prev, tr>>

\* count = [['UNK', -1]]; count.extend(Counter(words).most_common(...))
BDCount ==
    /\ bd.pc = "count"
    /\ \E q \in most_common(bd.words, bd.n_words - 1) :
          bd' = [bd EXCEPT
                   !.pc = "index",
                   !.count = <<(<<"UNK", -1>>)>> \o
                             [p \in 1..Len(q) |->
                                <<q[p], Occurrences(bd.words, q[p])>>]]
    /\ UNCHANGED <<bot_vars, data, data_index, gb, prev, tr>>

\* dictionary = dict(); for word, _ in count: ...
BDIndex ==
    /\ bd.pc = "index"
    /\ bd' = [bd EXCEPT !.pc = "encode",
                        !.dictionary = index_words(bd.count, 1, EmptyDict)]
    /\ UNCHANGED <<bot_vars, data, data_index, gb, prev, tr>>

\* data = list(); unk_count = 0; for word in words: ...
BDEncode ==
    /\ bd.pc = "encode"
    /\ bd' = [bd EXCEPT
                 !.pc = "return",
                 !.data = [p \in 1..Len(bd.words) |->
                             encode(bd.dictionary, bd.words[p])],
                 !.unk_count =
                     Cardinality({p \in 1..Len(bd.words) :
                                    bd.words[p] \notin DOMAIN bd.dictionary})]
    /\ UNCHANGED <<bot_vars, data, data_index, gb, prev, tr>>

\* count[0][1] = unk_count; reversed_dictionary = ...; return
BDReturn ==
    /\ bd.pc = "return"
    /\ \E r \in reversed_dicts(bd.dictionary) :
          bd' = [bd EXCEPT !.pc = "done",
                          !.count[1] = <<"UNK", bd.unk_count>>,
                          !.reversed_dictionary = r]
    /\ UNCHANGED <<bot_vars, data, data_index, gb, prev, tr>>

NextDataset ==
    \/ \E words \in WordLists, n_words \in 1..MaxNWords :
          BDCall(words, n_words)
    \/ BDCount
    \/ BDIndex
    \/ BDEncode
    \/ BDReturn

SpecDataset == InitDataset /\ [][NextDataset]_vars

(***************************************************************************)
(* train of the word2vec notebook: the loop over the steps.  Of the        *)
(* TensorFlow session only the loss it returns is kept: one value for the  *)
(* steps of a call.  generate_batch is taken by what a call of it leaves   *)
(* behind, the new data_index.  The division average_loss /= 2000 is kept  *)
(* as the pair of the sum and its divisor.                                 *)
(*   tr.added   how many losses were added to average_loss since it was    *)
(*              last set to 0                                              *)
(*   tr.report  the last line printed: the step, the sum and divisor of    *)
(*              the value, and tr.added at that time                       *)
(***************************************************************************)
\* step % 1000 == 0
ReportEvery == 1000

\* average_loss /= 2000
Divisor == 2000

\* the globals batch_size and num_skips that train passes on
train_batch_size == 128
train_num_skips == 2

\* the values of num_steps: one step, one report with step > 0, MaxSteps
StepCounts == {1, ReportEvery + 1, MaxSteps}

\* the loss of a step, as session.run returns it
Losses == {2, 4}

\* if step % 1000 == 0
report_due(step) == step % ReportEvery = 0

InitTrain ==
    /\ BotIdle
    /\ data \in DataLists
    /\ data_index = 0
    /\ gb = GBIdle
    /\ prev = PrevIdle
    /\ bd = BDIdle
    /\ tr = TRIdle

\* train(graph, num_steps) is called: average_loss = 0
TRCall(num_steps, loss_val) ==
    /\ tr.pc = "idle"
    /\ tr' = [TRIdle EXCEPT !.pc = "loop", !.num_steps = num_steps,
                            !.loss_val = loss_val]
    /\ UNCHANGED <<bot_vars, data, data_index, gb, prev, bd>>

\* one pass of for step in range(num_steps): generate_batch, session.run,
\* average_loss += loss_val, and the report when it is due
TRStep ==
    /\ tr.pc = "loop"
    /\ tr.step < tr.num_steps
    /\ data_index' = (data_index + train_batch_size \div train_num_skips)
                       % Len(data)
    /\ LET sum == tr.average_loss + tr.loss_val
           added == tr.added + 1
       IN  IF report_due(tr.step)
           THEN tr' = [tr EXCEPT
                         !.report = [step |-> tr.step, sum |-> sum,
                                     divisor |-> IF tr.step > 0
                                                 THEN Divisor ELSE 1,
                                     added |-> added],
                         !.average_loss = 0,
                         !.added = 0,
                         !.step = tr.step + 1]
           ELSE tr' = [tr EXCEPT !.average_loss = sum,
                                 !.added = added,
                                 !.step = tr.step + 1]
    /\ UNCHANGED <<bot_vars, data, gb, prev, bd>>

\* range(num_steps) is used up
TRReturn ==
    /\ tr.pc = "loop"
    /\ tr.step = tr.num_steps
    /\ tr' = [tr EXCEPT !.pc = "done"]
    /\ UNCHANGED <<bot_vars, data, data_index, gb, prev, bd>>

NextTrain ==
    \/ \E num_steps \in StepCounts, loss_val \in Losses :
          TRCall(num_steps, loss_val)
    \/ TRStep
    \/ TRReturn

SpecTrain == InitTrain /\ [][NextTrain]_vars

(***************************************************************************)
(* Vocabulary of the generate_batch properties.                            *)
(***************************************************************************)
\* batch_size // num_skips, the number of input words of a call
Groups(frame) == frame.batch_size \div frame.num_skips

\* the entries of batch and context that have been assigned
Written(frame) ==
    {e \in 1..Len(frame.targets) : frame.targets[e] # Uninit}

\* the group an entry of batch belongs to, from 0
GroupOf(frame, e) == (e - 1) \div frame.num_skips

Distance(a, b) == IF a >= b THEN a - b ELSE b - a

\* the arguments of the call fail one of the two assertions
InvalidArguments(frame) ==
    \/ frame.batch_size % frame.num_skips # 0
    \/ frame.num_skips > 2 * frame.skip_window

C25_IndexInRange ==
    /\ Len(data) > 0
    /\ data_index \in 0..(Len(data) - 1)

C25_Witness ==
    /\ gb.pc = "done"
    /\ prev.pc = "done"
    /\ gb.span > Len(data)
    /\ Len(data) > 1
    /\ data_index # 0

(***************************************************************************)
(* C26: within a call of generate_batch the assigned entries of one group  *)
(* hold the same input word, the centre of the window, and their context   *)
(* entries are the words at pairwise distinct window positions, none the   *)
(* centre position and each at most skip_window away from it; a call that  *)
(* returns has assigned every entry.                                       *)
(***************************************************************************)
C26_GroupShape ==
    /\ \A e \in Written(gb) :
          /\ gb.batch[e] = data[gb.origin[e] + 1]
          /\ gb.targets[e] \in 0..(gb.span - 1)
          /\ gb.targets[e] # gb.skip_window
          /\ Distance(gb.targets[e], gb.skip_window) <= gb.skip_window
          /\ gb.context[e]
               = data[((gb.origin[e] + Len(data) * gb.span
                         + gb.targets[e] - gb.skip_window) % Len(data)) + 1]
          /\ \A f \in Written(gb) :
                (f # e /\ GroupOf(gb, f) = GroupOf(gb, e)) =>
                    /\ gb.batch[f] = gb.batch[e]
                    /\ gb.origin[f] = gb.origin[e]
                    /\ gb.targets[f] # gb.targets[e]
    /\ gb.pc = "done" => Written(gb) = 1..gb.batch_size

C26_Witness ==
    /\ gb.pc = "done"
    /\ gb.num_skips = MaxBatchSize
    /\ gb.skip_window = MaxWindow
    /\ Len(data) = MaxData

(***************************************************************************)
(* C27: whenever generate_batch stands at the test of the loop             *)
(* while target in targets_to_avoid, some window position in 0 .. span-1   *)
(* is not in targets_to_avoid; and with a fair random source a call that   *)
(* stands at that test returns.                                            *)
(***************************************************************************)
C27_WhileTerminates ==
    /\ [](gb.pc = "while" =>
            \E t \in 0..(gb.span - 1) : t \notin Range(gb.targets_to_avoid))
    /\ (gb.pc = "while") ~> (gb.pc = "done")

C27_Witness ==
    /\ gb.pc = "while"
    /\ gb.num_skips = 2 * gb.skip_window
    /\ Len(gb.targets_to_avoid) = gb.num_skips
    /\ gb.target \in Range(gb.targets_to_avoid)

(***************************************************************************)
(* C28: a call of generate_batch with batch_size % num_skips != 0 or with  *)
(* num_skips > 2 * skip_window fails on its assertions: it reads no word   *)
(* of data and data_index keeps the value it had when the call was made,   *)
(* so that a later call goes on from the word after the last input word    *)
(* of the call that returned before the failure.                           *)
(***************************************************************************)
C28_FailedCallKeepsIndex ==
    /\ (gb.pc # "idle" /\ InvalidArguments(gb)) =>
          /\ gb.pc \in {"assert", "failed"}
          /\ gb.buffer = <<>>
          /\ gb.k = 0
          /\ data_index = gb.d0
    /\ gb.pc = "failed" => InvalidArguments(gb)
    /\ (gb.pc = "failed" /\ prev.pc = "done") =>
          (data_index + prev.skip_window) % Len(data)
            = (prev.centre + 1) % Len(data)

C28_Witness ==
    /\ gb.pc = "failed"
    /\ prev.pc = "done"
    /\ gb.batch_size % gb.num_skips = 0
    /\ gb.num_skips > 2 * gb.skip_window
    /\ data_index # 0

(***************************************************************************)
(* C29: the dictionary that build_dataset returns gives pairwise distinct  *)
(* indices 0 .. len(dictionary)-1 to its words, with 'UNK' at index 0, and *)
(* reversed_dictionary is its exact inverse with as many entries, for      *)
(* every word list and n_words, also when 'UNK' is one of the words.       *)
(***************************************************************************)
C29_DictionaryBijective ==
    bd.pc = "done" =>
        LET d == bd.dictionary
            r == bd.reversed_dictionary
        IN  /\ \A w1, w2 \in DOMAIN d : w1 # w2 => d[w1] # d[w2]
            /\ {d[w] : w \in DOMAIN d} = 0..(dict_len(d) - 1)
            /\ "UNK" \in DOMAIN d
            /\ d["UNK"] = 0
            /\ DOMAIN r = 0..(dict_len(d) - 1)
            /\ dict_len(r) = dict_len(d)
            /\ \A w \in DOMAIN d : r[d[w]] = w

(***************************************************************************)
(* C30: at every report of train with step > 0 the number of losses that   *)
(* were added to average_loss since it was last set to 0 equals the        *)
(* divisor 2000 of the printed value, which is then the average loss of    *)
(* the last 2000 batches.                                                  *)
(***************************************************************************)
C30_AverageOverDivisor ==
    tr.report.step > 0 =>
        /\ tr.report.added = tr.report.divisor
        /\ tr.report.sum = tr.report.divisor * tr.loss_val

=============================================================================
